---- MODULE Spec2Model ----
(***************************************************************************)
(* A model of examples/compute_nav_area.py: the start-up of the script,    *)
(* the recursive exploration play_env with its visited-pose list, the      *)
(* angular distance distance_angle, and FreeCamHelper.update.              *)
(*                                                                         *)
(* Units.  The script's floats are fixed-point integers with four         *)
(* decimals: a length of 0.01 m and an angle of 0.01 rad are 100, pi is    *)
(* 31416 and a full turn 62832.  Camera offsets are in units of 0.1, the   *)
(* factor update applies to every key offset.                              *)
(***************************************************************************)
EXTENDS Integers, Sequences, FiniteSets, TLC

VARIABLES
    pc,             \* position of the __main__ block
    pygame,         \* TRUE iff `import pygame` succeeded (pygame is not None)
    args,           \* the parsed command line
    config_loaded,  \* habitat.get_config has returned
    env_created,    \* habitat.Env(config) has been entered
    nav,            \* the cells the pathfinder reports navigable
    obstacle,       \* the pose class the contact test reports in contact
    robot,          \* env.sim.robot: [pos, rot]
    visit_pos_rot,  \* the visited list (visited_list of __main__)
    stack,          \* the active play_env calls, outermost first
    total_point,    \* the value of the top-level play_env call
    pickled,        \* what the script dumps at its end
    calls,          \* history: number of play_env calls made
    expanded,       \* history: the poses of the calls that expanded, in order
    last_call,      \* history: the last decision taken at a call's entry
    last_try,       \* history: the last base action integrated
    cam,            \* a FreeCamHelper
    keys,           \* pygame.key.get_pressed() at the last update
    update_idx,     \* the update index the caller passed last
    sensor,         \* transformation of the robot_third_rgb sensor
    alpha,          \* inputs and result of distance_angle
    beta,
    angle

vars == << pc, pygame, args, config_loaded, env_created, nav, obstacle, robot,
           visit_pos_rot, stack, total_point, pickled, calls, expanded,
           last_call, last_try, cam, keys, update_idx, sensor, alpha, beta,
           angle >>

exploreVars == << pc, pygame, args, config_loaded, env_created, nav, obstacle,
                  robot, visit_pos_rot, stack, total_point, pickled, calls,
                  expanded, last_call, last_try >>
camVars == << cam, keys, update_idx, sensor >>
angleVars == << alpha, beta, angle >>

\* Python values of the counter: an int, None, or not assigned yet
PyInt(n) == [ kind |-> "int", value |-> n ]
PyNone == [ kind |-> "None", value |-> 0 ]
Unset == [ kind |-> "unset", value |-> 0 ]

\* ------------------------------------------------------------------ bounds

GridW == 2            \* navigable corridor: cells 0 .. GridW-1 along x
MaxTurns == 1         \* distance_angle inputs span -MaxTurns .. MaxTurns turns
MaxUpdateIdx == 125   \* update indices passed to FreeCamHelper.update
MaxCamOffset == 1     \* cap on the accumulated free-camera offset (L1 norm)
MaxSeconds == 1       \* the run takes 0 .. MaxSeconds whole seconds

\* ------------------------------------------------------- distance_angle

PI == 31416
TWO_PI == 2 * PI

Abs(x) == IF x < 0 THEN -x ELSE x

distance_angle_nowrap(a, b) == Abs(b - a) % TWO_PI

distance_angle(a, b) ==
    LET phi == Abs(b - a) % TWO_PI
    IN  IF phi > PI THEN TWO_PI - phi ELSE phi

\* ---------------------------------------------------------- the simulator
\* The simulator is not part of the script.  It is modelled as planar
\* kinematics: a rotation adds to the heading, a forward move displaces the
\* base along the direction the heading faces.  One step turns the base by
\* 1.57 rad, a little less than a quarter turn, so that four rotations end
\* 0.0032 rad short of the first heading and a move forth and back ends
\* 0.0005 m beside the place it started from.

LIN_SPEED == 10
ANG_SPEED == 50
CTRL_DT == 314        \* 1 / env.sim.ctrl_freq: 0.0314 s

Displacement(v) == v * CTRL_DT

CellSize == Displacement(LIN_SPEED)
QuarterTurn == Displacement(ANG_SPEED)

Quadrant(rot) == (((rot % TWO_PI) + QuarterTurn \div 2) \div QuarterTurn) % 4

\* << cos, 0, sin >> of the headings 0, 1.57, 3.14 and 4.71, four decimals
Facing(rot) ==
    CASE Quadrant(rot) = 0 -> << 10000, 0, 0 >>
      [] Quadrant(rot) = 1 -> << 8, 0, 10000 >>
      [] Quadrant(rot) = 2 -> << -10000, 0, 16 >>
      [] OTHER             -> << -24, 0, -10000 >>

\* base_vel_ctrl.integrate_transform(1 / ctrl_freq, rigid_state), with the
\* linear velocity (lin_vel, 0, 0) and the angular velocity (0, ang_vel, 0)
\* both local to the robot; the angle is read back within one turn.
integrate_transform(pose, lin_vel, ang_vel) ==
    LET f == Facing(pose.rot)
    IN  [ pos |-> << pose.pos[1] + (Displacement(lin_vel) * f[1]) \div 10000,
                     pose.pos[2],
                     pose.pos[3] + (Displacement(lin_vel) * f[3]) \div 10000 >>,
          rot |-> (pose.rot + Displacement(ang_vel)) % TWO_PI ]

CellOf(pos) == << (pos[1] + CellSize \div 2) \div CellSize,
                  (pos[3] + CellSize \div 2) \div CellSize >>

Cells == { << cx, 0 >> : cx \in 0 .. GridW - 1 }
PoseClasses == Cells \X (0 .. 3)
NoObstacle == << << -1, -1 >>, 0 >>

\* env.sim.pathfinder.is_navigable(before_base_pos)
is_navigable(navCells, pos) == CellOf(pos) \in navCells

\* env.sim.contact_test(env.sim.robot.get_robot_sim_id())
contact_test(obs, pose) == << CellOf(pose.pos), Quadrant(pose.rot) >> = obs

StartPose == [ pos |-> << 0, 0, 0 >>, rot |-> 0 ]
NoPose == [ pos |-> << 0, 0, 0 >>, rot |-> 0 ]

\* ---------------------------------------------------------------- play_env

DEFAULT_RENDER_STEPS_LIMIT == 60
DEFAULT_SAVE_ACTIONS_COUNT == 200

BASE_ACTIONS_swapped == << << 1, 0 >>, << 0, 1 >> >>

\* for base_action in [[0, 1], [1, 0]]
BASE_ACTIONS == << << 0, 1 >>, << 1, 0 >> >>

has_visited_threshold_pos == 100
has_visited_threshold_rot == 100

vec2list(v) == << v[1], v[2], v[3] >>

\* x <= t on the doubles of the code, for the four-decimal values x and t
\* of the model: below and above t the answer is the same; exactly on t the
\* rounding of the doubles decides (0.04 - 0.03 > 0.01, 0.02 - 0.01 <= 0.01,
\* and 2 * np.pi is not 6.2832), so both answers are outcomes
LeqOutcomes(x, t) ==
    IF x < t THEN { TRUE } ELSE IF x > t THEN { FALSE } ELSE BOOLEAN

\* diff_pos <= has_visited_threshold_pos, where diff_pos is the square root
\* of the sum of the squares of diff_vec: the outcomes of the comparison
PosWithin(p, q) ==
    LET d == [ i \in 1 .. 3 |-> p[i] - q[i] ]
    IN  LeqOutcomes(d[1] * d[1] + d[2] * d[2] + d[3] * d[3],
                    has_visited_threshold_pos * has_visited_threshold_pos)

\* diff_rot <= has_visited_threshold_rot: the outcomes of the comparison
RotWithin(r, s) ==
    LeqOutcomes(distance_angle(r, s), has_visited_threshold_rot)

\* the test of lines 399-402 for one point of the list: its outcomes
Near(point, pos, rot) ==
    { a /\ b : a \in PosWithin(point[1], pos), b \in RotWithin(point[2], rot) }

FlagDistinct_exact(list, pos, rot) ==
    { \A i \in 1 .. Len(list) : list[i] # << vec2list(pos), rot >> }

\* flag_distinct after the loop over visit_pos_rot: FALSE when a point of
\* the list passes the test, TRUE when none does; the outcomes
FlagDistinct(list, pos, rot) ==
    IF \E i \in 1 .. Len(list) : Near(list[i], pos, rot) = { TRUE }
    THEN { FALSE }
    ELSE IF \E i \in 1 .. Len(list) : TRUE \in Near(list[i], pos, rot)
         THEN BOOLEAN
         ELSE { TRUE }

\* visit_pos_rot.append([vec2list(after_base_pos), float(after_base_rot)])
Record(list, pos, rot) == Append(list, << vec2list(pos), rot >>)

Restore_none(r, frame) == r

\* env.sim.robot.base_pos = before_base_pos; base_rot = before_base_rot
Restore(r, frame) ==
    [ pos |-> frame.before_base_pos, rot |-> frame.before_base_rot ]

\* the state of a call before line 301: nothing recorded, update_idx = 0
QueueFull(a) == a.save_actions /\ 0 > a.save_actions_count
RenderLimit(a) == a.no_render /\ 0 > DEFAULT_RENDER_STEPS_LIMIT

Blocked_navonly(navCells, obs, pose) == ~ is_navigable(navCells, pose.pos)

Blocked_contactonly(navCells, obs, pose) == contact_test(obs, pose)

\* (not is_navigable) or (is_contact)
Blocked(navCells, obs, pose) ==
    (~ is_navigable(navCells, pose.pos)) \/ contact_test(obs, pose)

\* the files --load-actions can name that exist
Files == { "actions.npy" }

\* lines 275-278: open(args.load_actions, "rb") raises FileNotFoundError
LoadFails(a) == a.load_actions # "None" /\ a.load_actions \notin Files

EntryOutcome_norepeat(a, navCells, obs, pose, flag_distinct) ==
    IF LoadFails(a) THEN "raise"
    ELSE IF QueueFull(a) \/ RenderLimit(a) THEN "quit"
    ELSE IF Blocked(navCells, obs, pose) THEN "collide"
    ELSE "proceed"

\* what a call does on entry, in the order of lines 275-346
EntryOutcome(a, navCells, obs, pose, flag_distinct) ==
    IF LoadFails(a) THEN "raise"
    ELSE IF QueueFull(a) \/ RenderLimit(a) THEN "quit"
    ELSE IF Blocked(navCells, obs, pose) THEN "collide"
    ELSE IF ~ flag_distinct THEN "repeat"
    ELSE "proceed"

ReturnValue(outcome) == IF outcome = "quit" THEN PyNone ELSE PyInt(0)

\* ans += play_env(...)
AddAns(ans, ret) == ans + ret

\* A call's parameters and the locals its later lines read.  The locals of
\* lines 270-299 (render limit, loaded actions, the FreeCamHelper, counters)
\* are set and, but for the two checks of lines 301-307, never read again.
Frame(level, flag) ==
    [ level |-> level, flag_distinct |-> flag, at |-> "entry",
      before_base_pos |-> << 0, 0, 0 >>, before_base_rot |-> 0,
      ans |-> 0, tried |-> << >>, returned |-> 0 ]

Top == stack[Len(stack)]
Pop == SubSeq(stack, 1, Len(stack) - 1)

\* the caller of the returning call receives ret
ReturnTo(ret) ==
    IF Len(stack) = 1
    THEN /\ stack' = << >>
         /\ total_point' = ret
         /\ pc' = "report"
    ELSE /\ total_point' = total_point
         /\ IF ret.kind = "None"
            THEN /\ stack' = << >>
                 /\ pc' = "TypeError"
            ELSE /\ pc' = pc
                 /\ stack' = [ Pop EXCEPT ![Len(stack) - 1] =
                        [ @ EXCEPT !.ans = AddAns(@, ret.value),
                                   !.returned = @ + 1 ] ]

\* lines 275-278: with --load-actions the call opens the file; the open
\* fails when the file is not there, and the exception ends the script
PlayEnvLoadFails ==
    /\ pc = "play_env"
    /\ Top.at = "entry"
    /\ EntryOutcome(args, nav, obstacle, robot, Top.flag_distinct) = "raise"
    /\ pc' = "FileNotFoundError"
    /\ stack' = << >>
    /\ last_call' = [ level |-> Top.level,
                      navigable |-> is_navigable(nav, robot.pos),
                      contact |-> contact_test(obstacle, robot),
                      flag_distinct |-> Top.flag_distinct,
                      outcome |-> "raise", tried |-> << >> ]
    /\ UNCHANGED << pygame, args, config_loaded, env_created, nav, obstacle,
                    robot, visit_pos_rot, total_point, pickled, calls,
                    expanded, last_try >>
    /\ UNCHANGED << camVars, angleVars >>

\* lines 301-341: the call returns before the loop over the base actions
PlayEnvReturnEarly ==
    /\ pc = "play_env"
    /\ Top.at = "entry"
    /\ LET o == EntryOutcome(args, nav, obstacle, robot, Top.flag_distinct)
       IN  /\ o \notin { "proceed", "raise" }
           /\ last_call' = [ level |-> Top.level,
                             navigable |-> is_navigable(nav, robot.pos),
                             contact |-> contact_test(obstacle, robot),
                             flag_distinct |-> Top.flag_distinct,
                             outcome |-> o, tried |-> << >> ]
           /\ ReturnTo(ReturnValue(o))
    /\ UNCHANGED << pygame, args, config_loaded, env_created, nav, obstacle,
                    robot, visit_pos_rot, pickled, calls, expanded, last_try >>
    /\ UNCHANGED << camVars, angleVars >>

\* lines 321-346: the call goes on to the loop, ans = 1
PlayEnvProceed ==
    /\ pc = "play_env"
    /\ Top.at = "entry"
    /\ EntryOutcome(args, nav, obstacle, robot, Top.flag_distinct) = "proceed"
    /\ stack' = [ stack EXCEPT ![Len(stack)] =
            [ @ EXCEPT !.at = "loop",
                       !.before_base_pos = robot.pos,
                       !.before_base_rot = robot.rot,
                       !.ans = 1 ] ]
    /\ expanded' = Append(expanded, robot)
    /\ last_call' = [ level |-> Top.level,
                      navigable |-> is_navigable(nav, robot.pos),
                      contact |-> contact_test(obstacle, robot),
                      flag_distinct |-> Top.flag_distinct,
                      outcome |-> "proceed", tried |-> << >> ]
    /\ UNCHANGED << pc, pygame, args, config_loaded, env_created, nav,
                    obstacle, robot, visit_pos_rot, total_point, pickled,
                    calls, last_try >>
    /\ UNCHANGED << camVars, angleVars >>

\* lines 347-412: one iteration of the loop, up to the recursive call
TryBaseAction ==
    /\ pc = "play_env"
    /\ Top.at = "loop"
    /\ Len(Top.tried) < Len(BASE_ACTIONS)
    /\ LET base_action == BASE_ACTIONS[Len(Top.tried) + 1]
           restored == Restore(robot, Top)
           lin_vel == base_action[1] * LIN_SPEED
           ang_vel == base_action[2] * ANG_SPEED
           target == integrate_transform(restored, lin_vel, ang_vel)
           new_pos == [ target.pos EXCEPT ![2] = restored.pos[2] ]
           after == [ pos |-> new_pos, rot |-> target.rot ]
       IN  \E flag \in FlagDistinct(visit_pos_rot, after.pos, after.rot) :
           /\ robot' = after
           /\ visit_pos_rot' = IF flag
                               THEN Record(visit_pos_rot, after.pos, after.rot)
                               ELSE visit_pos_rot
           /\ stack' = Append(
                  [ stack EXCEPT ![Len(stack)] =
                        [ @ EXCEPT !.tried = Append(@, base_action) ] ],
                  Frame(Top.level + 1, flag))
           /\ calls' = calls + 1
           /\ last_try' = [ left |-> robot, from |-> restored,
                            entry |-> << Top.before_base_pos,
                                         Top.before_base_rot >>,
                            action |-> base_action, after |-> after,
                            flag_distinct |-> flag ]
    /\ UNCHANGED << pc, pygame, args, config_loaded, env_created, nav,
                    obstacle, total_point, pickled, expanded, last_call >>
    /\ UNCHANGED << camVars, angleVars >>

\* line 414: return ans
PlayEnvReturn ==
    /\ pc = "play_env"
    /\ Top.at = "loop"
    /\ Len(Top.tried) = Len(BASE_ACTIONS)
    /\ last_call' = [ level |-> Top.level,
                      navigable |-> is_navigable(nav, Top.before_base_pos),
                      contact |-> contact_test(obstacle, Restore(robot, Top)),
                      flag_distinct |-> Top.flag_distinct,
                      outcome |-> "done", tried |-> Top.tried ]
    /\ ReturnTo(PyInt(Top.ans))
    /\ UNCHANGED << pygame, args, config_loaded, env_created, nav, obstacle,
                    robot, visit_pos_rot, pickled, calls, expanded, last_try >>
    /\ UNCHANGED << camVars, angleVars >>

\* ---------------------------------------------------------------- __main__

NeedsPygame_swapped(has, a) == (~ has) /\ a.no_render

\* not has_pygame() and not args.no_render
NeedsPygame(has, a) == (~ has) /\ ~ a.no_render

Args(nr, sa, count, la, ik) ==
    [ no_render |-> nr, save_actions |-> sa, save_actions_count |-> count,
      load_actions |-> la, add_ik |-> ik ]

\* The command lines: with or without --no-render, and beside it nothing,
\* or --save-actions (with the default count, with 0, with -1), or a
\* negative --save-actions-count alone, or --load-actions with a file that
\* exists or with one that does not, or --add-ik.
ArgSets ==
    { Args(nr, o[1], o[2], o[3], o[4]) :
        nr \in BOOLEAN,
        o \in { << FALSE, DEFAULT_SAVE_ACTIONS_COUNT, "None", FALSE >>,
                << TRUE, DEFAULT_SAVE_ACTIONS_COUNT, "None", FALSE >>,
                << TRUE, 0, "None", FALSE >>,
                << TRUE, -1, "None", FALSE >>,
                << FALSE, -1, "None", FALSE >>,
                << FALSE, DEFAULT_SAVE_ACTIONS_COUNT, "actions.npy", FALSE >>,
                << FALSE, DEFAULT_SAVE_ACTIONS_COUNT, "nofile", FALSE >>,
                << FALSE, DEFAULT_SAVE_ACTIONS_COUNT, "None", TRUE >> } }

\* lines 505-508
CheckPygame ==
    /\ pc = "main"
    /\ pc' = IF NeedsPygame(pygame, args) THEN "ImportError" ELSE "get_config"
    /\ UNCHANGED << pygame, args, config_loaded, env_created, nav, obstacle,
                    robot, visit_pos_rot, stack, total_point, pickled, calls,
                    expanded, last_call, last_try >>
    /\ UNCHANGED << camVars, angleVars >>

\* lines 510-537: with --add-ik a configuration whose action space has no
\* ARM_ACTION raises ValueError (line 528)
GetConfig ==
    /\ pc = "get_config"
    /\ config_loaded' = TRUE
    /\ \E has_arm_action \in BOOLEAN :
          pc' = IF args.add_ik /\ ~ has_arm_action
                THEN "ValueError" ELSE "make_env"
    /\ UNCHANGED << pygame, args, env_created, nav, obstacle, robot,
                    visit_pos_rot, stack, total_point, pickled, calls,
                    expanded, last_call, last_try >>
    /\ UNCHANGED << camVars, angleVars >>

\* lines 540-541: the environment the configuration names, after reset
MakeEnv ==
    /\ pc = "make_env"
    /\ \E n \in SUBSET Cells, o \in PoseClasses \cup { NoObstacle } :
          /\ nav' = n
          /\ obstacle' = o
    /\ robot' = StartPose
    /\ env_created' = TRUE
    /\ pc' = "seed"
    /\ UNCHANGED << pygame, args, config_loaded, visit_pos_rot, stack,
                    total_point, pickled, calls, expanded, last_call,
                    last_try >>
    /\ UNCHANGED << camVars, angleVars >>

\* lines 542-548: the list is seeded with the start pose, play_env is called
SeedAndCall ==
    /\ pc = "seed"
    /\ visit_pos_rot' = Record(<< >>, robot.pos, robot.rot)
    /\ stack' = << Frame(0, TRUE) >>
    /\ calls' = 1
    /\ pc' = "play_env"
    /\ UNCHANGED << pygame, args, config_loaded, env_created, nav, obstacle,
                    robot, total_point, pickled, expanded, last_call,
                    last_try >>
    /\ UNCHANGED << camVars, angleVars >>

Durations == 0 .. MaxSeconds

\* lines 550-560: the counts are printed and [difference, total_point,
\* visited_list] is dumped into /Users/jimmytyyang/Documents/; where that
\* directory is missing, open raises and nothing is dumped
Report ==
    /\ pc = "report"
    /\ \E difference \in Durations, dir_exists \in BOOLEAN :
          IF dir_exists
          THEN /\ pickled' = << difference, total_point, visit_pos_rot >>
               /\ pc' = "plot"
          ELSE /\ pickled' = pickled
               /\ pc' = "FileNotFoundError"
    /\ UNCHANGED << pygame, args, config_loaded, env_created, nav, obstacle,
                    robot, visit_pos_rot, stack, total_point, calls, expanded,
                    last_call, last_try >>
    /\ UNCHANGED << camVars, angleVars >>

\* lines 562-572: the list is plotted and the script stops in the debugger
Plot ==
    /\ pc = "plot"
    /\ pc' = "pdb"
    /\ UNCHANGED << pygame, args, config_loaded, env_created, nav, obstacle,
                    robot, visit_pos_rot, stack, total_point, pickled, calls,
                    expanded, last_call, last_try >>
    /\ UNCHANGED << camVars, angleVars >>

NoCall == [ level |-> -1, navigable |-> FALSE, contact |-> FALSE,
            flag_distinct |-> FALSE, outcome |-> "none", tried |-> << >> ]
NoTry == [ left |-> NoPose, from |-> NoPose, entry |-> << << 0, 0, 0 >>, 0 >>,
           action |-> << 0, 0 >>, after |-> NoPose, flag_distinct |-> FALSE ]

ExploreIdle ==
    /\ pc = "idle"
    /\ args = Args(FALSE, FALSE, DEFAULT_SAVE_ACTIONS_COUNT, "None", FALSE)
    /\ config_loaded = FALSE
    /\ env_created = FALSE
    /\ nav = {}
    /\ obstacle = NoObstacle
    /\ robot = NoPose
    /\ visit_pos_rot = << >>
    /\ stack = << >>
    /\ total_point = Unset
    /\ pickled = << >>
    /\ calls = 0
    /\ expanded = << >>
    /\ last_call = NoCall
    /\ last_try = NoTry

CamIdle ==
    /\ cam = [ is_free_cam_mode |-> FALSE, last_pressed |-> 0,
               free_rpy |-> << 0, 0, 0 >>, free_xyz |-> << 0, 0, 0 >> ]
    /\ keys = {}
    /\ update_idx = 0
    /\ sensor = "fixed"

AngleIdle ==
    /\ alpha = 0
    /\ beta = 0
    /\ angle = -1

\* the script after the imports and parse_args
Init ==
    /\ pc = "main"
    /\ pygame \in BOOLEAN
    /\ args \in ArgSets
    /\ config_loaded = FALSE
    /\ env_created = FALSE
    /\ nav = {}
    /\ obstacle = NoObstacle
    /\ robot = NoPose
    /\ visit_pos_rot = << >>
    /\ stack = << >>
    /\ total_point = Unset
    /\ pickled = << >>
    /\ calls = 0
    /\ expanded = << >>
    /\ last_call = NoCall
    /\ last_try = NoTry
    /\ CamIdle
    /\ AngleIdle

Next ==
    \/ CheckPygame
    \/ GetConfig
    \/ MakeEnv
    \/ SeedAndCall
    \/ PlayEnvLoadFails
    \/ PlayEnvReturnEarly
    \/ PlayEnvProceed
    \/ TryBaseAction
    \/ PlayEnvReturn
    \/ Report
    \/ Plot

Spec == Init /\ [][Next]_vars

\* the script runs on its own: a step that can be taken is taken
FairSpec == Spec /\ WF_vars(Next)

\* ----------------------------------------------------------- FreeCamHelper

DEBOUNCE == 60

KeyNames == { "z", "u", "o", "i", "k", "j", "l", "q", "e", "w", "s", "a",
              "d", "b" }

\* the keys held down during one update: none, one key, or Z or B together
\* with one other key
KeySets == { {} } \cup { { a } : a \in KeyNames }
              \cup { { "z", a } : a \in KeyNames }
              \cup { { "b", a } : a \in KeyNames }

\* the caller's update index advances by half the debounce window, or by
\* one more than that, between two updates
IdxSteps == { DEBOUNCE \div 2, DEBOUNCE \div 2 + 1 }

Toggles_inclusive(k, idx, last_pressed) ==
    "z" \in k /\ (idx - last_pressed) >= DEBOUNCE

\* keys[pygame.K_z] and (update_idx - self._last_pressed) > 60
Toggles(k, idx, last_pressed) ==
    "z" \in k /\ (idx - last_pressed) > DEBOUNCE

\* lines 210-222, before the scaling by 0.1
OffsetRpy(k) ==
    IF "u" \in k THEN << 0, 1, 0 >>
    ELSE IF "o" \in k THEN << 0, -1, 0 >>
    ELSE IF "i" \in k THEN << 0, 0, 1 >>
    ELSE IF "k" \in k THEN << 0, 0, -1 >>
    ELSE IF "j" \in k THEN << 1, 0, 0 >>
    ELSE IF "l" \in k THEN << -1, 0, 0 >>
    ELSE << 0, 0, 0 >>

\* lines 224-236
OffsetXyz(k) ==
    IF "q" \in k THEN << 0, 1, 0 >>
    ELSE IF "e" \in k THEN << 0, -1, 0 >>
    ELSE IF "w" \in k THEN << 0, 0, 1 >>
    ELSE IF "s" \in k THEN << 0, 0, -1 >>
    ELSE IF "a" \in k THEN << 1, 0, 0 >>
    ELSE IF "d" \in k THEN << -1, 0, 0 >>
    ELSE << 0, 0, 0 >>

VecAdd(v, w) == << v[1] + w[1], v[2] + w[2], v[3] + w[3] >>
Norm1(v) == Abs(v[1]) + Abs(v[2]) + Abs(v[3])

\* FreeCamHelper.update(env, step_result, update_idx) with the keys k down
UpdatedCam(c, k, idx) ==
    LET t == Toggles(k, idx, c.last_pressed)
        mode == IF t THEN ~ c.is_free_cam_mode ELSE c.is_free_cam_mode
        last == IF t THEN idx ELSE c.last_pressed
        rpy == IF "b" \in k THEN << 0, 0, 0 >>
               ELSE VecAdd(c.free_rpy, OffsetRpy(k))
        xyz == IF "b" \in k THEN << 0, 0, 0 >>
               ELSE VecAdd(c.free_xyz, OffsetXyz(k))
    IN  [ is_free_cam_mode |-> mode, last_pressed |-> last,
          free_rpy |-> IF mode THEN rpy ELSE c.free_rpy,
          free_xyz |-> IF mode THEN xyz ELSE c.free_xyz ]

\* line 203 without pygame: None has no attribute key
FreeCamUpdateFails ==
    /\ pc = "idle"
    /\ ~ pygame
    /\ pc' = "AttributeError"
    /\ UNCHANGED << pygame, args, config_loaded, env_created, nav, obstacle,
                    robot, visit_pos_rot, stack, total_point, pickled, calls,
                    expanded, last_call, last_try >>
    /\ UNCHANGED << camVars, angleVars >>

FreeCamUpdate ==
    /\ pc = "idle"
    /\ pygame
    /\ \E k \in KeySets, d \in IdxSteps :
          /\ update_idx + d <= MaxUpdateIdx
          /\ update_idx' = update_idx + d
          /\ keys' = k
          /\ cam' = UpdatedCam(cam, k, update_idx + d)
    /\ Norm1(cam'.free_rpy) + Norm1(cam'.free_xyz) <= MaxCamOffset
    /\ sensor' = IF cam'.is_free_cam_mode
                 THEN << cam'.free_rpy, cam'.free_xyz >>
                 ELSE sensor
    /\ UNCHANGED << exploreVars, angleVars >>

\* a FreeCamHelper as __init__ leaves it, and a caller that updates it
InitFreeCam == ExploreIdle /\ pygame \in BOOLEAN /\ CamIdle /\ AngleIdle

NextFreeCam == FreeCamUpdate \/ FreeCamUpdateFails

SpecFreeCam == InitFreeCam /\ [][NextFreeCam]_vars

\* ------------------------------------------------- distance_angle, alone

AngleOffsets == { 0, 1, has_visited_threshold_rot,
                  has_visited_threshold_rot + 1, PI \div 2, PI, PI + 1,
                  PI + PI \div 2, TWO_PI - 1 }

AngleInputs == { t * TWO_PI + o : t \in (- MaxTurns) .. MaxTurns,
                                  o \in AngleOffsets }

CallDistanceAngle ==
    /\ pc = "idle"
    /\ angle = -1
    /\ angle' = distance_angle(alpha, beta)
    /\ UNCHANGED << exploreVars, camVars, alpha, beta >>

InitAngle ==
    /\ ExploreIdle
    /\ pygame = TRUE
    /\ CamIdle
    /\ alpha \in AngleInputs
    /\ beta \in AngleInputs
    /\ angle = -1

NextAngle == CallDistanceAngle

SpecAngle == InitAngle /\ [][NextAngle]_vars

\* ================================================================ claims

ROTATE == << 0, 1 >>
FORWARD == << 1, 0 >>

\* two recorded points within 0.01 in position and within 0.01 in angle,
\* whatever the rounding of a distance that is exactly 0.01
WithinBoth(a, b) == Near(a, b[1], b[2]) = { TRUE }

\* C1: no two distinct entries of the visited list are within both
\* thresholds of each other, and a pose is appended only when the test of
\* lines 399-402 found it farther than a threshold, in position or in
\* angle, from every entry before it.
C1_Deduplicated ==
    /\ \A i, j \in 1 .. Len(visit_pos_rot) :
          i # j => ~ WithinBoth(visit_pos_rot[i], visit_pos_rot[j])
    /\ (last_try # NoTry /\ ~ last_try.flag_distinct) =>
          \E i \in 1 .. Len(visit_pos_rot) :
              TRUE \in Near(visit_pos_rot[i], last_try.after.pos,
                            last_try.after.rot)

\* C1 witness: a pose was kept off the list because it is within the
\* thresholds of a recorded pose without being equal to any recorded pose.
C1_Witness ==
    /\ pc = "play_env"
    /\ last_try # NoTry
    /\ ~ last_try.flag_distinct
    /\ Len(visit_pos_rot) >= 4
    /\ \A i \in 1 .. Len(visit_pos_rot) :
          visit_pos_rot[i] # << last_try.after.pos, last_try.after.rot >>

EarlyOutcomes == { "quit", "collide", "repeat" }
Returned == { "quit", "collide", "repeat", "done" }

\* C2 as stated: a call returns without trying the base actions only when
\* its pose is non-navigable or in contact, and every other call tries both.
C2_OnlyCollisionStops ==
    last_call.outcome \in Returned \cup { "proceed" } =>
        ( last_call.outcome \in EarlyOutcomes
            <=> ((~ last_call.navigable) \/ last_call.contact) )

\* C2 amended: a call that gets past the opening of the --load-actions file
\* returns without trying the base actions exactly when --save-actions is
\* given with a negative --save-actions-count, or its pose is non-navigable,
\* or in contact, or was flagged as a repeat (flag_distinct false); every
\* other such call tries both base actions before it returns.  A call whose
\* --load-actions file is missing raises and tries nothing.
C2_CollisionOrRepeatStops ==
    /\ last_call.outcome \in Returned \cup { "proceed" } =>
          /\ ~ LoadFails(args)
          /\ last_call.outcome \in EarlyOutcomes
                <=> \/ args.save_actions /\ args.save_actions_count < 0
                    \/ ~ last_call.navigable
                    \/ last_call.contact
                    \/ ~ last_call.flag_distinct
    /\ last_call.outcome = "raise" =>
          LoadFails(args) /\ last_call.tried = << >> /\ calls = 1
    /\ last_call.outcome = "done" => last_call.tried = << ROTATE, FORWARD >>
    /\ last_call.outcome = "quit" =>
          args.save_actions /\ args.save_actions_count < 0

\* C2 witness: a call on a navigable, contact-free pose returned at once
\* because the pose was a repeat.
C2_Witness ==
    /\ last_call.outcome = "repeat"
    /\ last_call.navigable
    /\ ~ last_call.contact
    /\ last_call.level >= 2

\* C3: an expanding call tries the rotation, then the forward move, and
\* nothing else; each child runs one level deeper; at most one child of a
\* call is active, and the forward child is started only when the rotation
\* child has returned.
C3_DepthFirstOrder ==
    /\ \A k \in 1 .. Len(stack) :
          /\ stack[k].level = k - 1
          /\ stack[k].tried \in { << >>, << ROTATE >>, << ROTATE, FORWARD >> }
          /\ stack[k].at = "entry" => k = Len(stack) /\ stack[k].tried = << >>
          /\ k < Len(stack) => /\ stack[k].at = "loop"
                               /\ stack[k].tried # << >>
                               /\ stack[k].returned = Len(stack[k].tried) - 1
          /\ k = Len(stack) => stack[k].returned = Len(stack[k].tried)
    /\ last_call.outcome = "done" => last_call.tried = << ROTATE, FORWARD >>
    /\ last_try # NoTry => last_try.action \in { ROTATE, FORWARD }

\* C3 witness: below the top of the stack a call is waiting for its forward
\* child, the rotation child having returned.
C3_Witness ==
    /\ Len(stack) >= 4
    /\ \E k \in 1 .. Len(stack) - 1 :
          /\ stack[k].tried = << ROTATE, FORWARD >>
          /\ stack[k].returned = 1

\* C4 as stated: without pygame the script never gets past its start: no
\* configuration is loaded and no environment is created.
C4_AlwaysImportError ==
    (~ pygame) => /\ pc \in { "main", "ImportError" }
                  /\ ~ config_loaded
                  /\ ~ env_created

\* C4 amended: without pygame and without --no-render the script ends with
\* an ImportError before the configuration is loaded and before an
\* environment is created; the ImportError is raised in no other case.
C4_ImportErrorUnlessNoRender ==
    /\ ((~ pygame) /\ ~ args.no_render) =>
          /\ pc \in { "main", "ImportError" }
          /\ ~ config_loaded
          /\ ~ env_created
    /\ pc = "ImportError" => (~ pygame) /\ ~ args.no_render

\* C4 witness: the script has ended with the ImportError.
C4_Witness ==
    /\ pc = "ImportError"
    /\ ~ pygame
    /\ ~ config_loaded

\* C5: the helper starts with the free camera off; the mode changes only in
\* an update with Z down whose index is more than 60 past the index of the
\* last toggle (0 at first), which then becomes that index; no toggle
\* happens up to index 60 and none without Z.
C5_Debounce ==
    /\ [](update_idx <= 60 =>
            (~ cam.is_free_cam_mode) /\ cam.last_pressed = 0)
    /\ [][ cam'.is_free_cam_mode # cam.is_free_cam_mode =>
              /\ "z" \in keys'
              /\ update_idx' - cam.last_pressed > 60
              /\ cam'.last_pressed = update_idx' ]_vars
    /\ [][ cam'.last_pressed # cam.last_pressed =>
              cam'.is_free_cam_mode # cam.is_free_cam_mode ]_vars
    /\ [][ "z" \notin keys' =>
              cam'.is_free_cam_mode = cam.is_free_cam_mode ]_vars

\* C5 witness: the mode was switched on and, more than 60 indices later,
\* off again.
C5_Witness ==
    /\ ~ cam.is_free_cam_mode
    /\ cam.last_pressed > 2 * 60
    /\ "z" \in keys

\* C6: each base action of a call is integrated from the pose the robot had
\* on entry to the call, wherever the recursion left the robot.
C6_SameStartPose ==
    last_try # NoTry =>
        /\ last_try.from.pos = last_try.entry[1]
        /\ last_try.from.rot = last_try.entry[2]

\* C6 witness: the forward action was integrated after the recursion for
\* the rotation had left the robot at another pose.
C6_Witness ==
    /\ last_try # NoTry
    /\ last_try.action = FORWARD
    /\ last_try.left # last_try.from
    /\ last_try.left.pos # last_try.from.pos

\* C7: distance_angle lies in [0, pi], is symmetric, is 0 for angles that
\* are equal or a whole number of turns apart, and does not change when a
\* full turn is added to either argument.
C7_WrappedDistance ==
    angle # -1 =>
        /\ angle >= 0
        /\ angle <= 31416
        /\ angle = distance_angle(beta, alpha)
        /\ ((alpha - beta) % 62832 = 0) => angle = 0
        /\ distance_angle(alpha + 62832, beta) = angle
        /\ distance_angle(alpha, beta + 62832) = angle

\* C7 witness: the distance of two angles a whole turn apart was computed.
C7_Witness ==
    /\ angle = 0
    /\ alpha # beta

PoseOf(point) == [ pos |-> point[1], rot |-> point[2] ]

\* C8 as stated, for the poses play_env records: every recorded pose is
\* navigable and not in contact.
C8_OnlyNavigableRecorded ==
    \A i \in 2 .. Len(visit_pos_rot) :
        /\ is_navigable(nav, visit_pos_rot[i][1])
        /\ ~ contact_test(obstacle, PoseOf(visit_pos_rot[i]))

\* C8 amended: every pose a call expands (the poses total_point counts) is
\* navigable and not in contact; every recorded pose is the start pose or
\* one base action away from an expanded pose, and is recorded before the
\* simulator is asked about it.
C8_OnlyNavigableExpanded ==
    /\ \A j \in 1 .. Len(expanded) :
          /\ is_navigable(nav, expanded[j].pos)
          /\ ~ contact_test(obstacle, expanded[j])
    /\ \A i \in 1 .. Len(visit_pos_rot) :
          \/ i = 1 /\ PoseOf(visit_pos_rot[i]) = StartPose
          \/ \E j \in 1 .. Len(expanded) :
                \/ PoseOf(visit_pos_rot[i])
                     = integrate_transform(expanded[j], 0, 50)
                \/ PoseOf(visit_pos_rot[i])
                     = integrate_transform(expanded[j], 10, 0)

\* C8 witness: the list holds a pose off the navigable area and a pose in
\* contact, next to expanded poses.
C8_Witness ==
    /\ pc = "pdb"
    /\ Len(expanded) >= 2
    /\ \E i \in 2 .. Len(visit_pos_rot) :
          ~ is_navigable(nav, visit_pos_rot[i][1])
    /\ \E i \in 2 .. Len(visit_pos_rot) :
          contact_test(obstacle, PoseOf(visit_pos_rot[i]))

\* C9 as stated: the value of the top-level call is the number of calls
\* that expanded, and it does not exceed the length of the visited list.
C9_TotalCountsExpanded ==
    pc \in { "report", "plot", "pdb" } =>
        /\ total_point = PyInt(Len(expanded))
        /\ Len(expanded) <= Len(visit_pos_rot)

IsPrefix(s, t) == Len(s) <= Len(t) /\ SubSeq(t, 1, Len(s)) = s

\* C10: the top-level call ends (it returns, or raises at once when the
\* --load-actions file is missing); the list only grows at its end, by the
\* pose handed to a child call with flag_distinct true and by nothing else;
\* no pose is expanded twice; there are at most 1 + 2 * (length of the
\* list) calls.
C10_Terminates ==
    /\ (pc = "play_env") ~>
          (pc = IF LoadFails(args) THEN "FileNotFoundError" ELSE "report")
    /\ [][ IsPrefix(visit_pos_rot, visit_pos_rot') ]_vars
    /\ [][ (pc = "play_env" /\ visit_pos_rot' # visit_pos_rot) =>
              /\ Len(visit_pos_rot') = Len(visit_pos_rot) + 1
              /\ calls' = calls + 1
              /\ stack'[Len(stack')].flag_distinct
              /\ PoseOf(visit_pos_rot'[Len(visit_pos_rot')]) = robot' ]_vars
    /\ [][ (pc = "play_env" /\ calls' # calls) =>
              /\ calls' = calls + 1
              /\ stack'[Len(stack')].flag_distinct
                    <=> visit_pos_rot' # visit_pos_rot ]_vars
    /\ [](\A i, j \in 1 .. Len(expanded) :
             i # j => expanded[i] # expanded[j])
    /\ [](pc \in { "play_env", "report", "plot", "pdb" } =>
             /\ visit_pos_rot[1] = << StartPose.pos, StartPose.rot >>
             /\ Len(expanded) <= Len(visit_pos_rot)
             /\ calls <= 1 + 2 * Len(visit_pos_rot))

\* C10 witness: the top-level call has returned after a run of many calls.
C10_Witness ==
    /\ pc = "report"
    /\ calls >= 15
    /\ calls = 1 + 2 * Len(expanded)
    /\ Len(visit_pos_rot) >= 8

====
